---------------------------- MODULE Spec2Model ----------------------------
(***************************************************************************)
(* The Lox scanner of rslox (src/src/lexer.rs).                            *)
(*                                                                         *)
(* A source is a sequence of characters; each character is written as a   *)
(* one-character string, except the newline "\n", the quote "\"" and the   *)
(* non-ASCII character U+00E9, written as Rust writes it, "\\u{e9}".       *)
(* The scanner counts characters with `current` (chars().nth(current))    *)
(* but measures the source and slices it in bytes (source.len(),          *)
(* source[start..current]); both measures are modelled.                    *)
(***************************************************************************)
EXTENDS Integers, Sequences, FiniteSets

VARIABLES
    source,   \* Scanner.source, the characters of the String
    tokens,   \* Scanner.tokens
    start,    \* Scanner.start
    current,  \* Scanner.current
    line,     \* Scanner.line
    spans,    \* history: the (start, current) pair each pushed token was sliced with
    result    \* what scan_tokens has returned: Running (not yet), Ok, Err, or Panic

vars == <<source, tokens, start, current, line, spans, result>>

---------------------------------------------------------------------------
(* Characters *)

EAcute == "\\u{e9}"
NUL == "\\0"
NonAscii == {EAcute}

Digits == {"0", "1", "2", "3", "4", "5", "6", "7", "8", "9"}

LowerSeq ==
    <<"a", "b", "c", "d", "e", "f", "g", "h", "i", "j", "k", "l", "m",
      "n", "o", "p", "q", "r", "s", "t", "u", "v", "w", "x", "y", "z">>

UpperSeq ==
    <<"A", "B", "C", "D", "E", "F", "G", "H", "I", "J", "K", "L", "M",
      "N", "O", "P", "Q", "R", "S", "T", "U", "V", "W", "X", "Y", "Z">>

LowerLetters == {LowerSeq[i] : i \in 1..26}

UpperLetters == {UpperSeq[i] : i \in 1..26}

\* char::is_digit(10)
is_digit(c) == c \in Digits

\* char::is_alphanumeric: Unicode Alphabetic or Numeric, so U+00E9 too
is_alphanumeric(c) == c \in Digits \cup LowerLetters \cup UpperLetters \cup {EAcute}

\* the pattern 'a'..='z' | 'A'..='Z' | '_'
IdentifierStart == LowerLetters \cup UpperLetters \cup {"_"}

\* the number of bytes of a character in the UTF-8 String
Utf8Len(c) == IF c \in NonAscii THEN 2 ELSE 1

---------------------------------------------------------------------------
(* The String: byte length, byte offsets and byte slices *)

RECURSIVE ByteLen(_)
ByteLen(s) == IF s = <<>> THEN 0 ELSE Utf8Len(Head(s)) + ByteLen(Tail(s))

\* the byte offset at which the character of index k (from 0) begins
ByteOffset(k) == ByteLen(SubSeq(source, 1, k))

IsCharBoundary(b) == \E k \in 0..Len(source) : ByteOffset(k) = b

CharIndexOf(b) == CHOOSE k \in 0..Len(source) : ByteOffset(k) = b

\* source[a..b] is a byte range: it panics when a > b, when b is past the
\* end, or when a or b falls inside a character
SliceOk(a, b) == a <= b /\ IsCharBoundary(a) /\ IsCharBoundary(b)

\* source[a..b] where it does not panic
Slice(a, b) == SubSeq(source, CharIndexOf(a) + 1, CharIndexOf(b))

NoChar == "None"

\* source.chars().nth(n)
CharsNth(n) == IF n < Len(source) THEN source[n + 1] ELSE NoChar

is_at_end(cur) == cur >= ByteLen(source)

PeekPanic == "unwrap panic"

\* peek with the cursor at cur: '\0' at the end, else chars().nth(cur).unwrap()
peek(cur) ==
    IF is_at_end(cur) THEN NUL
    ELSE IF CharsNth(cur) = NoChar THEN PeekPanic
    ELSE CharsNth(cur)

peek_next(cur) ==
    IF cur + 1 >= ByteLen(source) THEN NUL
    ELSE IF CharsNth(cur + 1) = NoChar THEN PeekPanic
    ELSE CharsNth(cur + 1)

\* match_char with the cursor at cur: whether the character is consumed
match_char(cur, arg) == CharsNth(cur) # NoChar /\ CharsNth(cur) = arg

---------------------------------------------------------------------------
(* str::parse::<f64> *)

SetMin(S) == CHOOSE x \in S : \A y \in S : x <= y

SetMax(S) == CHOOSE x \in S : \A y \in S : x >= y

\* the end (exclusive) of the run of decimal digits of s that begins at i
DigitsEnd(s, i) ==
    LET others == {j \in i..Len(s) : s[j] \notin Digits}
    IN  IF i > Len(s) THEN i
        ELSE IF others = {} THEN Len(s) + 1
        ELSE SetMin(others)

DigitValue(c) == CHOOSE d \in 0..9 : <<"0", "1", "2", "3", "4", "5", "6", "7", "8", "9">>[d + 1] = c

\* the number a sequence of decimal digits writes
RECURSIVE DigitsValue(_)
DigitsValue(s) ==
    IF s = <<>> THEN 0
    ELSE 10 * DigitsValue(SubSeq(s, 1, Len(s) - 1)) + DigitValue(s[Len(s)])

ToLower(c) ==
    IF c \in UpperLetters THEN LowerSeq[CHOOSE i \in 1..26 : UpperSeq[i] = c] ELSE c

\* the places of the parts of a decimal float in s: sign, integer digits,
\* '.', fraction digits, 'e' or 'E', exponent sign, exponent digits
F64Parts(s) ==
    LET n     == Len(s)
        i0    == IF n > 0 /\ s[1] \in {"+", "-"} THEN 2 ELSE 1
        i1    == DigitsEnd(s, i0)
        dot   == i1 <= n /\ s[i1] = "."
        i2    == IF dot THEN DigitsEnd(s, i1 + 1) ELSE i1
        nfrac == IF dot THEN i2 - (i1 + 1) ELSE 0
        exp   == (i1 - i0) + nfrac > 0 /\ i2 <= n /\ s[i2] \in {"e", "E"}
        i3    == IF exp /\ i2 + 1 <= n /\ s[i2 + 1] \in {"+", "-"} THEN i2 + 2
                 ELSE IF exp THEN i2 + 1 ELSE i2
        i4    == IF exp THEN DigitsEnd(s, i3) ELSE i2
    IN  [neg     |-> n > 0 /\ s[1] = "-",
         mant    |-> SubSeq(s, i0, i1 - 1) \o (IF dot THEN SubSeq(s, i1 + 1, i2 - 1) ELSE <<>>),
         nfrac   |-> nfrac,
         expneg  |-> exp /\ i3 = i2 + 2 /\ s[i2 + 1] = "-",
         expdig  |-> IF exp THEN SubSeq(s, i3, i4 - 1) ELSE <<>>,
         decimal |-> (i1 - i0) + nfrac > 0 /\ (exp => i4 > i3) /\ i4 = n + 1]

\* "inf", "infinity" and "nan", in any case, after an optional sign
F64Special(s) ==
    LET body == IF s # <<>> /\ s[1] \in {"+", "-"} THEN Tail(s) ELSE s
        low  == [i \in 1..Len(body) |-> ToLower(body[i])]
    IN  IF low \in {<<"i", "n", "f">>, <<"i", "n", "f", "i", "n", "i", "t", "y">>} THEN "inf"
        ELSE IF low = <<"n", "a", "n">> THEN "nan"
        ELSE "finite"

\* whether s.parse::<f64>() is Ok
ParseF64Ok(s) == F64Parts(s).decimal \/ F64Special(s) # "finite"

\* s without the "0"s at its front
StripLeadingZeros(s) ==
    LET nonzero == {i \in 1..Len(s) : s[i] # "0"}
    IN  IF nonzero = {} THEN <<>> ELSE SubSeq(s, SetMin(nonzero), Len(s))

\* s without the "0"s at its end
StripTrailingZeros(s) ==
    LET nonzero == {i \in 1..Len(s) : s[i] # "0"}
    IN  IF nonzero = {} THEN <<>> ELSE SubSeq(s, 1, SetMax(nonzero))

\* the order of the fractions 0.a and 0.b: -1, 0 or 1
FractionCmp(a, b) ==
    LET n    == IF Len(a) > Len(b) THEN Len(a) ELSE Len(b)
        x(i) == IF i <= Len(a) THEN DigitValue(a[i]) ELSE 0
        y(i) == IF i <= Len(b) THEN DigitValue(b[i]) ELSE 0
        diff == {i \in 1..n : x(i) # y(i)}
    IN  IF diff = {} THEN 0
        ELSE IF x(SetMin(diff)) < y(SetMin(diff)) THEN -1 ELSE 1

\* 2^1024 - 2^970 = 0.F64MaxHalfway * 10^309, halfway between f64::MAX and
\* 2^1024: a decimal at or above it parses to inf
F64MaxHalfway ==
    <<"1", "7", "9", "7", "6", "9", "3", "1", "3", "4", "8", "6", "2", "3", "1", "5",
      "8", "0", "7", "9", "3", "7", "2", "8", "9", "7", "1", "4", "0", "5", "3", "0",
      "3", "4", "1", "5", "0", "7", "9", "9", "3", "4", "1", "3", "2", "7", "1", "0",
      "0", "3", "7", "8", "2", "6", "9", "3", "6", "1", "7", "3", "7", "7", "8", "9",
      "8", "0", "4", "4", "4", "9", "6", "8", "2", "9", "2", "7", "6", "4", "7", "5",
      "0", "9", "4", "6", "6", "4", "9", "0", "1", "7", "9", "7", "7", "5", "8", "7",
      "2", "0", "7", "0", "9", "6", "3", "3", "0", "2", "8", "6", "4", "1", "6", "6",
      "9", "2", "8", "8", "7", "9", "1", "0", "9", "4", "6", "5", "5", "5", "5", "4",
      "7", "8", "5", "1", "9", "4", "0", "4", "0", "2", "6", "3", "0", "6", "5", "7",
      "4", "8", "8", "6", "7", "1", "5", "0", "5", "8", "2", "0", "6", "8", "1", "9",
      "0", "8", "9", "0", "2", "0", "0", "0", "7", "0", "8", "3", "8", "3", "6", "7",
      "6", "2", "7", "3", "8", "5", "4", "8", "4", "5", "8", "1", "7", "7", "1", "1",
      "5", "3", "1", "7", "6", "4", "4", "7", "5", "7", "3", "0", "2", "7", "0", "0",
      "6", "9", "8", "5", "5", "5", "7", "1", "3", "6", "6", "9", "5", "9", "6", "2",
      "2", "8", "4", "2", "9", "1", "4", "8", "1", "9", "8", "6", "0", "8", "3", "4",
      "9", "3", "6", "4", "7", "5", "2", "9", "2", "7", "1", "9", "0", "7", "4", "1",
      "6", "8", "4", "4", "4", "3", "6", "5", "5", "1", "0", "7", "0", "4", "3", "4",
      "2", "7", "1", "1", "5", "5", "9", "6", "9", "9", "5", "0", "8", "0", "9", "3",
      "0", "4", "2", "8", "8", "0", "1", "7", "7", "9", "0", "4", "1", "7", "4", "4",
      "9", "7", "7", "9", "2">>

\* 2^-1075 = 0.F64MinHalfway * 10^-323, half the least positive f64: a
\* decimal at or below it parses to zero
F64MinHalfway ==
    <<"2", "4", "7", "0", "3", "2", "8", "2", "2", "9", "2", "0", "6", "2", "3", "2",
      "7", "2", "0", "8", "8", "2", "8", "4", "3", "9", "6", "4", "3", "4", "1", "1",
      "0", "6", "8", "6", "1", "8", "2", "5", "2", "9", "9", "0", "1", "3", "0", "7",
      "1", "6", "2", "3", "8", "2", "2", "1", "2", "7", "9", "2", "8", "4", "1", "2",
      "5", "0", "3", "3", "7", "7", "5", "3", "6", "3", "5", "1", "0", "4", "3", "7",
      "5", "9", "3", "2", "6", "4", "9", "9", "1", "8", "1", "8", "0", "8", "1", "7",
      "9", "9", "6", "1", "8", "9", "8", "9", "8", "2", "8", "2", "3", "4", "7", "7",
      "2", "2", "8", "5", "8", "8", "6", "5", "4", "6", "3", "3", "2", "8", "3", "5",
      "5", "1", "7", "7", "9", "6", "9", "8", "9", "8", "1", "9", "9", "3", "8", "7",
      "3", "9", "8", "0", "0", "5", "3", "9", "0", "9", "3", "9", "0", "6", "3", "1",
      "5", "0", "3", "5", "6", "5", "9", "5", "1", "5", "5", "7", "0", "2", "2", "6",
      "3", "9", "2", "2", "9", "0", "8", "5", "8", "3", "9", "2", "4", "4", "9", "1",
      "0", "5", "1", "8", "4", "4", "3", "5", "9", "3", "1", "8", "0", "2", "8", "4",
      "9", "9", "3", "6", "5", "3", "6", "1", "5", "2", "5", "0", "0", "3", "1", "9",
      "3", "7", "0", "4", "5", "7", "6", "7", "8", "2", "4", "9", "2", "1", "9", "3",
      "6", "5", "6", "2", "3", "6", "6", "9", "8", "6", "3", "6", "5", "8", "4", "8",
      "0", "7", "5", "7", "0", "0", "1", "5", "8", "5", "7", "6", "9", "2", "6", "9",
      "9", "0", "3", "7", "0", "6", "3", "1", "1", "9", "2", "8", "2", "7", "9", "5",
      "5", "8", "5", "5", "1", "3", "3", "2", "9", "2", "7", "8", "3", "4", "3", "3",
      "8", "4", "0", "9", "3", "5", "1", "9", "7", "8", "0", "1", "5", "5", "3", "1",
      "2", "4", "6", "5", "9", "7", "2", "6", "3", "5", "7", "9", "5", "7", "4", "6",
      "2", "2", "7", "6", "6", "4", "6", "5", "2", "7", "2", "8", "2", "7", "2", "2",
      "0", "0", "5", "6", "3", "7", "4", "0", "0", "6", "4", "8", "5", "4", "9", "9",
      "9", "7", "7", "0", "9", "6", "5", "9", "9", "4", "7", "0", "4", "5", "4", "0",
      "2", "0", "8", "2", "8", "1", "6", "6", "2", "2", "6", "2", "3", "7", "8", "5",
      "7", "3", "9", "3", "4", "5", "0", "7", "3", "6", "3", "3", "9", "0", "0", "7",
      "9", "6", "7", "7", "6", "1", "9", "3", "0", "5", "7", "7", "5", "0", "6", "7",
      "4", "0", "1", "7", "6", "3", "2", "4", "6", "7", "3", "6", "0", "0", "9", "6",
      "8", "9", "5", "1", "3", "4", "0", "5", "3", "5", "5", "3", "7", "4", "5", "8",
      "5", "1", "6", "6", "6", "1", "1", "3", "4", "2", "2", "3", "7", "6", "6", "6",
      "7", "8", "6", "0", "4", "1", "6", "2", "1", "5", "9", "6", "8", "0", "4", "6",
      "1", "9", "1", "4", "4", "6", "7", "2", "9", "1", "8", "4", "0", "3", "0", "0",
      "5", "3", "0", "0", "5", "7", "5", "3", "0", "8", "4", "9", "0", "4", "8", "7",
      "6", "5", "3", "9", "1", "7", "1", "1", "3", "8", "6", "5", "9", "1", "6", "4",
      "6", "2", "3", "9", "5", "2", "4", "9", "1", "2", "6", "2", "3", "6", "5", "3",
      "8", "8", "1", "8", "7", "9", "6", "3", "6", "2", "3", "9", "3", "7", "3", "2",
      "8", "0", "4", "2", "3", "8", "9", "1", "0", "1", "8", "6", "7", "2", "3", "4",
      "8", "4", "9", "7", "6", "6", "8", "2", "3", "5", "0", "8", "9", "8", "6", "3",
      "3", "8", "8", "5", "8", "7", "9", "2", "5", "6", "2", "8", "3", "0", "2", "7",
      "5", "5", "9", "9", "5", "6", "5", "7", "5", "2", "4", "4", "5", "5", "5", "0",
      "7", "2", "5", "5", "1", "8", "9", "3", "1", "3", "6", "9", "0", "8", "3", "6",
      "2", "5", "4", "7", "7", "9", "1", "8", "6", "9", "4", "8", "6", "6", "7", "9",
      "9", "4", "9", "6", "8", "3", "2", "4", "0", "4", "9", "7", "0", "5", "8", "2",
      "1", "0", "2", "8", "5", "1", "3", "1", "8", "5", "4", "5", "1", "3", "9", "6",
      "2", "1", "3", "8", "3", "7", "7", "2", "2", "8", "2", "6", "1", "4", "5", "4",
      "3", "7", "6", "9", "3", "4", "1", "2", "5", "3", "2", "0", "9", "8", "5", "9",
      "1", "3", "2", "7", "6", "6", "7", "2", "3", "6", "3", "2", "8", "1", "2", "5">>

\* the exponent the digits after 'e' write, as parse::<f64> accumulates it:
\* digit by digit while the value is below 0x10000 (65536), the remaining
\* digits being read and dropped. Leading "0"s leave the value at 0, and the
\* first prefix to reach 65536 has five or six digits after them.
ExponentValue(digits) ==
    LET lead == StripLeadingZeros(digits)
    IN  IF Len(lead) <= 5 THEN DigitsValue(lead)
        ELSE IF DigitsValue(SubSeq(lead, 1, 5)) >= 65536 THEN DigitsValue(SubSeq(lead, 1, 5))
        ELSE DigitsValue(SubSeq(lead, 1, 6))

\* the value of s.parse::<f64>() where it is Ok: inf, nan, or the f64 nearest
\* to mant * 10^exp, mant being the digits of an integer that is no multiple
\* of 10 (no digits: zero). A decimal at or above F64MaxHalfway is inf, one
\* at or below F64MinHalfway is zero.
ParseF64(s) ==
    LET p     == F64Parts(s)
        lead  == StripLeadingZeros(p.mant)
        mant  == StripTrailingZeros(lead)
        e     == (IF p.expneg THEN -1 ELSE 1) * ExponentValue(p.expdig)
                     - p.nfrac + (Len(lead) - Len(mant))
        sci   == Len(mant) + e
        zero  == [class |-> "finite", neg |-> p.neg, mant |-> <<>>, exp |-> 0]
    IN  IF ~p.decimal
        THEN [class |-> F64Special(s), neg |-> p.neg, mant |-> <<>>, exp |-> 0]
        ELSE IF mant = <<>> THEN zero
        ELSE IF sci > 309 \/ (sci = 309 /\ FractionCmp(mant, F64MaxHalfway) >= 0)
             THEN [class |-> "inf", neg |-> p.neg, mant |-> <<>>, exp |-> 0]
        ELSE IF sci < -323 \/ (sci = -323 /\ FractionCmp(mant, F64MinHalfway) <= 0)
             THEN zero
        ELSE [class |-> "finite", neg |-> p.neg, mant |-> mant, exp |-> e]

---------------------------------------------------------------------------
(* Tokens *)

NoNumber == [class |-> "none", neg |-> FALSE, mant |-> <<>>, exp |-> 0]

\* Option<Literal>
NoLiteral == [kind |-> "None", text |-> <<>>, number |-> NoNumber]

StringLiteral(value) == [kind |-> "String", text |-> value, number |-> NoNumber]

NumberLiteral(value) == [kind |-> "Number", text |-> <<>>, number |-> value]

\* the single-character arms of scan_token
SingleCharToken(c) ==
    CASE c = "(" -> "LeftParen"
      [] c = ")" -> "RightParen"
      [] c = "{" -> "LeftBrace"
      [] c = "}" -> "RightBrace"
      [] c = "," -> "Comma"
      [] c = "." -> "Dot"
      [] c = "-" -> "Minus"
      [] c = "+" -> "Plus"
      [] c = ";" -> "Semicolon"
      [] c = "*" -> "Star"

SingleChars == {"(", ")", "{", "}", ",", ".", "-", "+", ";", "*"}

OperatorChars == {"!", "=", "<", ">"}

\* the arms of scan_token that look for a following '='
OperatorToken(c, matched) ==
    CASE c = "!" -> IF matched THEN "BangEqual" ELSE "Bang"
      [] c = "=" -> IF matched THEN "EqualEqual" ELSE "Equal"
      [] c = "<" -> IF matched THEN "LessEqual" ELSE "Less"
      [] c = ">" -> IF matched THEN "GreaterEqual" ELSE "Greater"

\* the match on the text of an identifier
KeywordToken(text) ==
    CASE text = <<"a", "n", "d">> -> "And"
      [] text = <<"c", "l", "a", "s", "s">> -> "Class"
      [] text = <<"e", "l", "s", "e">> -> "Else"
      [] text = <<"f", "a", "l", "s", "e">> -> "False"
      [] text = <<"f", "o", "r">> -> "For"
      [] text = <<"f", "u", "n">> -> "Fun"
      [] text = <<"i", "f">> -> "If"
      [] text = <<"n", "i", "l">> -> "Nil"
      [] text = <<"o", "r">> -> "Or"
      [] text = <<"p", "r", "i", "n", "t">> -> "Print"
      [] text = <<"r", "e", "t", "u", "r", "n">> -> "Return"
      [] text = <<"s", "u", "p", "e", "r">> -> "Super"
      [] text = <<"t", "h", "i", "s">> -> "This"
      [] text = <<"t", "r", "u", "e">> -> "True"
      [] text = <<"v", "a", "r">> -> "Var"
      [] text = <<"w", "h", "i", "l", "e">> -> "While"
      [] OTHER -> "Identifier"

\* add_token with the lexeme cut one byte short
add_token_short(token_type, s, cur, ln) ==
    [token_type |-> token_type,
     lexeme |-> IF cur - 1 >= s /\ SliceOk(s, cur - 1) THEN Slice(s, cur - 1) ELSE <<>>,
     literal |-> NoLiteral, line |-> ln]

\* the Token add_token pushes when the lexeme is source[s..cur] and the line is ln
add_token(token_type, s, cur, ln) ==
    [token_type |-> token_type, lexeme |-> Slice(s, cur), literal |-> NoLiteral, line |-> ln]

add_token_literal(token_type, literal, s, cur, ln) ==
    [token_type |-> token_type, lexeme |-> Slice(s, cur), literal |-> literal, line |-> ln]

\* the Token scan_tokens pushes after the loop
EofToken(ln) ==
    [token_type |-> "Eof", lexeme |-> <<>>, literal |-> NoLiteral, line |-> ln]

---------------------------------------------------------------------------
(* The loops of scan_token, string and number; each gives the cursor it
   stops at, and whether a peek of it panicked *)

\* while self.peek() != '\n' && !self.is_at_end() { self.advance(); }
RECURSIVE CommentEnd(_)
CommentEnd(cur) ==
    IF peek(cur) = PeekPanic THEN [panic |-> TRUE, current |-> cur]
    ELSE IF peek(cur) # "\n" /\ ~is_at_end(cur) THEN CommentEnd(cur + 1)
    ELSE [panic |-> FALSE, current |-> cur]

\* while self.peek().is_alphanumeric() { self.advance(); }
RECURSIVE AlphanumericEnd(_)
AlphanumericEnd(cur) ==
    IF peek(cur) = PeekPanic THEN [panic |-> TRUE, current |-> cur]
    ELSE IF is_alphanumeric(peek(cur)) THEN AlphanumericEnd(cur + 1)
    ELSE [panic |-> FALSE, current |-> cur]

\* while self.peek().is_digit(10) { self.advance(); }
RECURSIVE DigitRunEnd(_)
DigitRunEnd(cur) ==
    IF peek(cur) = PeekPanic THEN [panic |-> TRUE, current |-> cur]
    ELSE IF is_digit(peek(cur)) THEN DigitRunEnd(cur + 1)
    ELSE [panic |-> FALSE, current |-> cur]

\* the loop of string: every newline it passes increments line
RECURSIVE StringBodyEnd(_, _)
StringBodyEnd(cur, ln) ==
    IF peek(cur) = PeekPanic THEN [panic |-> TRUE, current |-> cur, line |-> ln]
    ELSE IF peek(cur) # "\"" /\ ~is_at_end(cur)
         THEN StringBodyEnd(cur + 1, IF peek(cur) = "\n" THEN ln + 1 ELSE ln)
    ELSE [panic |-> FALSE, current |-> cur, line |-> ln]

\* the cursor of number after its loops, from the cursor cur that follows
\* the first digit
NumberEnd(cur) ==
    LET int == DigitRunEnd(cur)
    IN  IF int.panic THEN int
        ELSE IF peek(int.current) = "."
             THEN IF peek_next(int.current) = PeekPanic
                  THEN [panic |-> TRUE, current |-> int.current]
                  ELSE IF is_digit(peek_next(int.current))
                       THEN DigitRunEnd(int.current + 1)
                       ELSE int
        ELSE int

---------------------------------------------------------------------------
(* scan_tokens *)

LineBase == 0

NoResult == [kind |-> "Running", tokens |-> <<>>, line |-> 0, message |-> ""]

Ok(toks) == [kind |-> "Ok", tokens |-> toks, line |-> 0, message |-> ""]

\* Err(LoxError::new(ln, message))
Err(ln, message) == [kind |-> "Err", tokens |-> <<>>, line |-> ln, message |-> message]

Panicked == [kind |-> "Panic", tokens |-> <<>>, line |-> 0, message |-> ""]

\* an iteration of the loop of scan_tokens is about to call scan_token
Scanning == result.kind = "Running" /\ ~is_at_end(current)

\* the iteration ends in a panic, with the cursor at cur and the line at ln
\* by then: the call never returns
Panic(cur, ln) ==
    /\ result' = Panicked
    /\ start' = current
    /\ current' = cur
    /\ line' = ln
    /\ UNCHANGED <<source, tokens, spans>>

\* the iteration ends with token pushed, the cursor at cur and the line at ln
Push(token, cur, ln) ==
    /\ tokens' = Append(tokens, token)
    /\ spans' = Append(spans, [start |-> current, current |-> cur])
    /\ start' = current
    /\ current' = cur
    /\ line' = ln
    /\ UNCHANGED <<source, result>>

\* the iteration ends with no token pushed
Skip(cur, ln) ==
    /\ start' = current
    /\ current' = cur
    /\ line' = ln
    /\ UNCHANGED <<source, tokens, spans, result>>

\* scan_token returns an error, which scan_tokens returns
Fail(cur, ln, message) ==
    /\ result' = Err(ln, message)
    /\ start' = current
    /\ current' = cur
    /\ line' = ln
    /\ UNCHANGED <<source, tokens, spans>>

\* self.advance() finds no character at current: unwrap panics
AdvancePanic ==
    /\ Scanning
    /\ CharsNth(current) = NoChar
    /\ Panic(current, line)

ScanSingle ==
    /\ Scanning
    /\ CharsNth(current) \in SingleChars
    /\ IF SliceOk(current, current + 1)
       THEN Push(add_token(SingleCharToken(CharsNth(current)), current, current + 1, line),
                 current + 1, line)
       ELSE Panic(current + 1, line)

ScanOperator ==
    /\ Scanning
    /\ CharsNth(current) \in OperatorChars
    /\ LET matched == match_char(current + 1, "=")
           cur     == IF matched THEN current + 2 ELSE current + 1
       IN  IF SliceOk(current, cur)
           THEN Push(add_token(OperatorToken(CharsNth(current), matched), current, cur, line),
                     cur, line)
           ELSE Panic(cur, line)

ScanSlash ==
    /\ Scanning
    /\ CharsNth(current) = "/"
    /\ IF match_char(current + 1, "/")
       THEN LET end == CommentEnd(current + 2)
            IN  IF end.panic THEN Panic(end.current, line) ELSE Skip(end.current, line)
       ELSE IF SliceOk(current, current + 1)
            THEN Push(add_token("Slash", current, current + 1, line), current + 1, line)
            ELSE Panic(current + 1, line)

ScanWhitespace ==
    /\ Scanning
    /\ CharsNth(current) \in {" ", "\r", "\t"}
    /\ Skip(current + 1, line)

ScanNewline ==
    /\ Scanning
    /\ CharsNth(current) = "\n"
    /\ Skip(current + 1, line + 1)

\* '"' => self.string()
string ==
    /\ Scanning
    /\ CharsNth(current) = "\""
    /\ LET end == StringBodyEnd(current + 1, line)
           cur == end.current + 1
       IN  IF end.panic THEN Panic(end.current, end.line)
           ELSE IF is_at_end(end.current)
                THEN Fail(end.current, end.line, "Unterminated string")
           ELSE IF SliceOk(current + 1, cur - 1) /\ SliceOk(current, cur)
                THEN Push(add_token_literal("String", StringLiteral(Slice(current + 1, cur - 1)),
                                            current, cur, end.line),
                          cur, end.line)
           ELSE Panic(cur, end.line)

\* '0'..='9' => self.number()
number ==
    /\ Scanning
    /\ CharsNth(current) \in Digits
    /\ LET end == NumberEnd(current + 1)
       IN  IF end.panic \/ ~SliceOk(current, end.current) THEN Panic(end.current, line)
           ELSE IF ~ParseF64Ok(Slice(current, end.current)) THEN Panic(end.current, line)
           ELSE Push(add_token_literal("Number",
                                       NumberLiteral(ParseF64(Slice(current, end.current))),
                                       current, end.current, line),
                     end.current, line)

ScanIdentifier ==
    /\ Scanning
    /\ CharsNth(current) \in IdentifierStart
    /\ LET end == AlphanumericEnd(current + 1)
       IN  IF end.panic \/ ~SliceOk(current, end.current) THEN Panic(end.current, line)
           ELSE Push(add_token(KeywordToken(Slice(current, end.current)),
                               current, end.current, line),
                     end.current, line)

ScanUnexpected ==
    /\ Scanning
    /\ CharsNth(current) # NoChar
    /\ CharsNth(current) \notin SingleChars \cup OperatorChars \cup Digits \cup IdentifierStart
                                \cup {"/", " ", "\r", "\t", "\n", "\""}
    /\ Fail(current + 1, line, "Unexpected character")

\* scan_tokens returning the tokens without the push of Eof
FinishWithoutEof ==
    /\ result.kind = "Running"
    /\ is_at_end(current)
    /\ result' = Ok(tokens)
    /\ UNCHANGED <<source, tokens, start, current, line, spans>>

\* the loop of scan_tokens is over: push Eof and return the tokens
Finish ==
    /\ result.kind = "Running"
    /\ is_at_end(current)
    /\ tokens' = Append(tokens, EofToken(line))
    /\ result' = Ok(Append(tokens, EofToken(line)))
    /\ UNCHANGED <<source, start, current, line, spans>>

---------------------------------------------------------------------------
(* The sources scanned *)

MaxLen == 4
MaxTail == 3

Alphabet == {"=", "/", "\n", " ", "\"", "1", ".", "a", "@", EAcute}

TailAlphabet == {"!", "=", "1", ";", "@"}

RECURSIVE SeqsUpTo(_, _)
SeqsUpTo(S, n) ==
    IF n = 0 THEN {<<>>}
    ELSE LET shorter == SeqsUpTo(S, n - 1)
         IN  shorter \cup {Append(s, c) : s \in {t \in shorter : Len(t) = n - 1}, c \in S}

\* a comment line, with non-ASCII text or with a character that begins no
\* token, before the rest of the source
Preambles == {<<"/", "/", EAcute, "\n">>, <<"/", "/", "@", "\n">>}

Examples ==
    {<<"v", "a", "r", " ", "x", " ", "=", " ", "1", "2", ".", "5", ";", "\n">>,
     <<"c", "l", "a", "s", "s", "r", "o", "o", "m">>,
     <<"\"", "u", "n", "t", "e", "r", "m", "i", "n", "a", "t", "e", "d">>,
     <<"1", ".">>,
     <<"@">>}

Sources ==
    SeqsUpTo(Alphabet, MaxLen)
        \cup {p \o t : p \in Preambles, t \in SeqsUpTo(TailAlphabet, MaxTail)}
        \cup Examples

\* Scanner::new(source)
Init ==
    /\ source \in Sources
    /\ tokens = <<>>
    /\ start = 0
    /\ current = 0
    /\ line = LineBase
    /\ spans = <<>>
    /\ result = NoResult

Next ==
    \/ AdvancePanic
    \/ ScanSingle
    \/ ScanOperator
    \/ ScanSlash
    \/ ScanWhitespace
    \/ ScanNewline
    \/ string
    \/ number
    \/ ScanIdentifier
    \/ ScanUnexpected
    \/ Finish

Spec == Init /\ [][Next]_vars

---------------------------------------------------------------------------
(* What the claims speak of, read off the source text alone *)

Whitespace == {" ", "\r", "\t", "\n"}

\* the number of newlines among the first k characters of the source
NewlinesBefore(k) == Cardinality({i \in 1..k : source[i] = "\n"})

\* the first position from p on (positions count from 1) whose character
\* is in S, or one past the end
FirstIn(S, p) ==
    IF \E q \in p..Len(source) : source[q] \in S
    THEN CHOOSE q \in p..Len(source) :
             source[q] \in S /\ \A r \in p..(q - 1) : source[r] \notin S
    ELSE Len(source) + 1

\* the first position from p on whose character is not in S, or one past the end
FirstNotIn(S, p) ==
    IF \E q \in p..Len(source) : source[q] \notin S
    THEN CHOOSE q \in p..Len(source) :
             source[q] \notin S /\ \A r \in p..(q - 1) : source[r] \in S
    ELSE Len(source) + 1

\* one past the number that begins at position p: digits, then '.' and
\* digits when a digit follows the '.'
GrammarNumberEnd(p) ==
    LET d == FirstNotIn(Digits, p)
    IN  IF d + 1 <= Len(source) /\ source[d] = "." /\ source[d + 1] \in Digits
        THEN FirstNotIn(Digits, d + 1)
        ELSE d

\* the first lexical error of the source from position p on, by the
\* grammar: none, an unterminated string or an unexpected character
RECURSIVE GrammarError(_)
GrammarError(p) ==
    IF p > Len(source) THEN [kind |-> "none", pos |-> 0]
    ELSE LET c == source[p]
             next == IF p + 1 <= Len(source) THEN source[p + 1] ELSE NoChar
         IN  CASE c \in Whitespace \cup SingleChars -> GrammarError(p + 1)
               [] c \in OperatorChars -> GrammarError(IF next = "=" THEN p + 2 ELSE p + 1)
               [] c = "/" ->
                    GrammarError(IF next = "/" THEN FirstIn({"\n"}, p + 2) ELSE p + 1)
               [] c = "\"" ->
                    IF FirstIn({"\""}, p + 1) > Len(source)
                    THEN [kind |-> "unterminated", pos |-> p]
                    ELSE GrammarError(FirstIn({"\""}, p + 1) + 1)
               [] c \in Digits -> GrammarError(GrammarNumberEnd(p))
               [] c \in IdentifierStart ->
                    GrammarError(FirstNotIn(Digits \cup LowerLetters \cup UpperLetters
                                                \cup NonAscii, p + 1))
               [] OTHER -> [kind |-> "unexpected", pos |-> p]

Returned == result.kind # "Running"

\* position p of the source lies in the lexeme of no token pushed
Uncovered(p) == \A i \in 1..Len(spans) : ~(spans[i].start < p /\ p <= spans[i].current)

\* position p lies in a stretch that begins with "//", holds no newline up
\* to p and lies in no lexeme
InComment(p) ==
    \E q \in 1..p :
        /\ q + 1 <= Len(source)
        /\ source[q] = "/" /\ source[q + 1] = "/"
        /\ \A r \in q..p : source[r] # "\n" /\ Uncovered(r)

VarExample == <<"v", "a", "r", " ", "x", " ", "=", " ", "1", "2", ".", "5", ";", "\n">>

TokenTypes(toks) == [i \in 1..Len(toks) |-> toks[i].token_type]

---------------------------------------------------------------------------
(* The claims *)

\* C1: whatever the source, non-ASCII characters included, scan_tokens
\* returns Ok or one LoxError and never aborts in another way (no failed
\* unwrap, no slice out of range or inside a character), and its cursor
\* stays within the characters of the source.
C1_NeverAborts ==
    /\ result.kind \in {"Running", "Ok", "Err"}
    /\ current <= Len(source)
    /\ (result.kind = "Err" => result.tokens = <<>>)

\* C2: when scan_tokens returns Ok the sequence is not empty, its last
\* token is Eof with an empty lexeme and no literal, no other token is
\* Eof, and a source of whitespace alone yields exactly one token.
C2_EofLastAndOnly ==
    result.kind = "Ok" =>
        LET toks == result.tokens
            n    == Len(toks)
        IN  /\ n >= 1
            /\ toks[n].token_type = "Eof"
            /\ toks[n].lexeme = <<>>
            /\ toks[n].literal = NoLiteral
            /\ \A i \in 1..(n - 1) : toks[i].token_type # "Eof"
            /\ (\A p \in 1..Len(source) : source[p] \in Whitespace) => n = 1

C2_Witness ==
    /\ result.kind = "Ok"
    /\ Len(result.tokens) >= 3
    /\ \E p \in 1..Len(source) : source[p] \in Whitespace

\* C3: every token scan_tokens returns, Eof and multi-line String tokens
\* included, carries the line base plus the number of newlines before the
\* offset where its lexeme begins.
C3_TokenLineIsStartLine ==
    result.kind = "Ok" =>
        \A i \in 1..Len(result.tokens) :
            result.tokens[i].line =
                LineBase + NewlinesBefore(IF i <= Len(spans) THEN spans[i].start
                                          ELSE Len(source))

\* C4: when scan_tokens returns Ok, the lexemes of the tokens before Eof
\* are the slices source[start, current) they were pushed with, not empty,
\* in increasing order without overlap, and every position of the source in
\* no lexeme is whitespace or part of a // comment.
C4_LexemesTileTheSource ==
    result.kind = "Ok" =>
        LET toks == result.tokens
        IN  /\ Len(spans) = Len(toks) - 1
            /\ \A i \in 1..Len(spans) :
                   /\ spans[i].start < spans[i].current
                   /\ spans[i].current <= Len(source)
                   /\ toks[i].lexeme = SubSeq(source, spans[i].start + 1, spans[i].current)
                   /\ i < Len(spans) => spans[i].current <= spans[i + 1].start
            /\ \A p \in 1..Len(source) :
                   Uncovered(p) => source[p] \in Whitespace \/ InComment(p)

C4_Witness ==
    /\ result.kind = "Ok"
    /\ Len(spans) >= 2
    /\ \E p \in 1..Len(source) : Uncovered(p) /\ InComment(p)
    /\ \E p \in 1..Len(source) : Uncovered(p) /\ source[p] \in Whitespace

\* C5: for a source of one line of valid tokens and a single newline at its
\* end, scan_tokens, where it returns, returns Ok with the tokens in order
\* and Eof last (for "var x = 12.5;\n": Var, Identifier, Equal, Number,
\* Semicolon, Eof), and every token, Eof included, carries the line of the
\* first source line.
C5_OneLineAllOnFirstLine ==
    ( /\ Returned /\ result.kind # "Panic"
      /\ Len(source) >= 2
      /\ FirstIn({"\n"}, 1) = Len(source)
      /\ GrammarError(1).kind = "none" ) =>
        /\ result.kind = "Ok"
        /\ result.tokens[Len(result.tokens)].token_type = "Eof"
        /\ \A i \in 1..Len(result.tokens) : result.tokens[i].line = LineBase
        /\ source = VarExample =>
               TokenTypes(result.tokens) =
                   <<"Var", "Identifier", "Equal", "Number", "Semicolon", "Eof">>

\* C6: when the first lexical error of the source is a string whose
\* opening quote is never closed, scan_tokens, where it returns, returns
\* Err "Unterminated string" with no tokens, on the line of the opening
\* quote, whatever follows the quote.
C6_UnterminatedAtOpeningQuote ==
    (Returned /\ result.kind # "Panic" /\ GrammarError(1).kind = "unterminated") =>
        result = Err(LineBase + NewlinesBefore(GrammarError(1).pos - 1), "Unterminated string")

\* C7: when the first lexical error of the source is a character that
\* begins no token, scan_tokens returns Err "Unexpected character" with no
\* tokens, on the line of that character.
C7_FailFastUnexpected ==
    (Returned /\ GrammarError(1).kind = "unexpected") =>
        result = Err(LineBase + NewlinesBefore(GrammarError(1).pos - 1), "Unexpected character")

\* C8: a token that starts at '!', '=', '<' or '>' is pushed as exactly one
\* token: of the two-character kind, with a lexeme of two characters, when
\* the next character is '='; else of the one-character kind, the next
\* character left unconsumed.
C8_OperatorMaximalMunch ==
    [][ (Scanning /\ CharsNth(current) \in OperatorChars) =>
            LET two == CharsNth(current + 1) = "="
                n   == IF two THEN 2 ELSE 1
            IN  /\ result' = result
                /\ Len(tokens') = Len(tokens) + 1
                /\ SubSeq(tokens', 1, Len(tokens)) = tokens
                /\ tokens'[Len(tokens')].token_type = OperatorToken(CharsNth(current), two)
                /\ Len(tokens'[Len(tokens')].lexeme) = n
                /\ current' = current + n ]_vars

\* C9: a // where a token could start discards itself and every character
\* up to the next newline or the end of the source: no token, no error,
\* whatever the characters are; the cursor stops at the newline, which the
\* loop then consumes, and line is not changed by the comment.
C9_CommentDiscarded ==
    [][ (Scanning /\ CharsNth(current) = "/" /\ CharsNth(current + 1) = "/") =>
            /\ result' = result
            /\ tokens' = tokens
            /\ line' = line
            /\ current' = FirstIn({"\n"}, current + 3) - 1 ]_vars

\* C10: a token that starts at a digit is pushed as a Number token whose
\* lexeme is the run of digits, with '.' and the digits after it when a
\* digit follows the '.'; the number path neither errs nor aborts.
C10_NumberLexeme ==
    [][ (Scanning /\ CharsNth(current) \in Digits) =>
            /\ result' = result
            /\ Len(tokens') = Len(tokens) + 1
            /\ tokens'[Len(tokens')].token_type = "Number"
            /\ tokens'[Len(tokens')].lexeme =
                   SubSeq(source, current + 1, GrammarNumberEnd(current + 1) - 1)
            /\ current' = GrammarNumberEnd(current + 1) - 1 ]_vars

===========================================================================
